---- MODULE Spec2Model ----
(***************************************************************************)
(* State-machine model of the PrimeTrade task manager backend:             *)
(* Credential Store (models/User.js), Token Issuer (utils/generateToken),  *)
(* Auth Guard (middleware/authMiddleware.js), Task Service                 *)
(* (controllers/taskController.js), profile operations                     *)
(* (controllers/userController.js) and the Error Translator                *)
(* (middleware/errorMiddleware.js).                                        *)
(*                                                                         *)
(* A request is a record in one of the slots of reqs.  Every storage call  *)
(* the handlers await is one atomic step on the stores; the synchronous    *)
(* code between two awaits belongs to the step that precedes it.           *)
(* Strings are sequences of one-character strings, so that trim,           *)
(* lowercase, length and tokenisation are computed, not assumed.           *)
(***************************************************************************)
EXTENDS Integers, Sequences, FiniteSets, TLC

VARIABLES
  users,       \* Credential Store: [set of user ids -> User document]
  tasks,       \* Record Store: [set of task ids -> Task document]
  nextUserId,  \* next fresh user ObjectId
  nextTaskId,  \* next fresh task ObjectId
  now,         \* wall clock, in seconds
  ticks,       \* number of clock advances so far
  reqs,        \* request slot -> the request being served / last served there
  ops,         \* number of requests started so far
  plain,       \* history: user id -> plaintext password given at creation
  creator,     \* history: task id -> id of the principal whose create made it
  nodeEnv,     \* process.env.NODE_ENV, fixed at start-up
  err,         \* the error last handed to the Error Translator on its own
  eresp        \* the response the Error Translator produced for err

vars == <<users, tasks, nextUserId, nextTaskId, now, ticks, reqs, ops, plain,
          creator, nodeEnv, err, eresp>>

\* ------------------------------------------------------------------ bounds
MaxOps == 2
MaxTicks == 1
MaxUsers == 3
MaxTasks == 3

Slots == {1, 2}

\* ----------------------------------------------------------------- strings
Has(obj, f) == f \in DOMAIN obj

Drop(obj, fs) == [f \in (DOMAIN obj) \ fs |-> obj[f]]

Put(obj, f, v) == [g \in (DOMAIN obj) \cup {f} |-> IF g = f THEN v ELSE obj[g]]

IsSpace(c) == c = " "

ToLowerChar(c) ==
  CASE c = "A" -> "a"
    [] c = "B" -> "b"
    [] c = "C" -> "c"
    [] c = "X" -> "x"
    [] OTHER -> c

ToLower(s) == [i \in 1..Len(s) |-> ToLowerChar(s[i])]

RECURSIVE TrimLeft(_)
TrimLeft(s) ==
  IF s # <<>> /\ IsSpace(Head(s)) THEN TrimLeft(Tail(s)) ELSE s

RECURSIVE TrimRight(_)
TrimRight(s) ==
  IF s # <<>> /\ IsSpace(s[Len(s)]) THEN TrimRight(SubSeq(s, 1, Len(s) - 1)) ELSE s

Trim(s) == TrimRight(TrimLeft(s))

\* ------------------------------------------------- Credential Store (User)
NameMaxLen == 100
PasswordMinLen == 6
Salts == {"s1", "s2"}

\* /^\S+@\S+\.\S+$/ : no white space, an "@" after at least one character,
\* a "." at least one character later, and at least one character after it.
MatchesEmailRegex(s) ==
  /\ \A i \in 1..Len(s) : ~IsSpace(s[i])
  /\ \E i, j \in 1..Len(s) :
       /\ s[i] = "@" /\ s[j] = "."
       /\ 1 < i /\ i + 1 < j /\ j < Len(s)

\* Schema setters of the email path (lowercase: true, trim: true).
EmailSetter(s) == ToLower(Trim(s))

\* Schema setter of the name path (trim: true).
NameSetter(s) == Trim(s)

\* bcrypt.hash(password, salt): "$2b$", the cost, the salt, then a digest
\* that depends on every character of the password and on the salt.
BcryptHash(pw, salt) ==
  <<"$2b$", "10", salt>> \o [i \in 1..Len(pw) |-> salt \o pw[i]]

IsBcryptHash(h) == Len(h) >= 3 /\ h[1] = "$2b$"

\* bcrypt.compare(entered, stored): re-hash with the salt kept in the stored
\* value; a stored value that is no hash never matches.
BcryptCompare(entered, stored) ==
  IsBcryptHash(stored) /\ BcryptHash(entered, stored[3]) = stored

\* A pre-save hook without the isModified('password') test.
PreSaveAlways(doc, modified, salt) ==
  [doc EXCEPT !.password = BcryptHash(doc.password, salt)]

\* userSchema.pre('save'): hash only when the password path is modified.
PreSave(doc, modified, salt) ==
  IF "password" \in modified
  THEN [doc EXCEPT !.password = BcryptHash(doc.password, salt)]
  ELSE doc

\* userSchema.methods.matchPassword
MatchPassword(doc, entered) == BcryptCompare(entered, doc.password)

\* userSchema.methods.toJSON
UserToJSON(doc) == Drop(doc, {"password", "__v"})

\* A lookup without .select('-password').
SelectAllPaths(doc) == doc

\* Query projection .select('-password')
SelectNoPassword(doc) == Drop(doc, {"password"})

\* Mongoose document validation of a User (required, maxlength, match,
\* minlength), as a sequence of {field, message} entries.
UserSchemaErrors(doc) ==
  (IF doc.name = <<>> THEN << [path |-> "name", message |-> "Name is required"] >>
   ELSE IF Len(doc.name) > NameMaxLen
        THEN << [path |-> "name", message |-> "Name cannot exceed 100 characters"] >>
        ELSE << >>)
  \o
  (IF doc.email = <<>> THEN << [path |-> "email", message |-> "Email is required"] >>
   ELSE IF ~MatchesEmailRegex(doc.email)
        THEN << [path |-> "email", message |-> "Please provide a valid email address"] >>
        ELSE << >>)
  \o
  (IF doc.password = <<>> THEN << [path |-> "password", message |-> "Password is required"] >>
   ELSE IF Len(doc.password) < PasswordMinLen
        THEN << [path |-> "password", message |-> "Password must be at least 6 characters"] >>
        ELSE << >>)

\* The unique index on email: some other stored user has this email.
EmailTaken(store, email, selfId) ==
  \E u \in DOMAIN store : u # selfId /\ store[u].email = email

\* --------------------------------------------------- Token Issuer (JWT)
JWT_SECRET == "process-env-jwt-secret"

\* ms('1d') / 1000
OneDaySeconds == 86400

JwtHeader == [alg |-> "HS256", typ |-> "JWT"]

\* HMAC over header and payload: equal exactly when key, header and payload are.
JwtSignature(key, header, payload) == [key |-> key, header |-> header, payload |-> payload]

\* jwt.sign(payload, secret, {expiresIn}) at clock value t.
JwtSign(payload, key, expiresIn, t) ==
  LET full == [id |-> payload.id, iat |-> t, exp |-> t + expiresIn]
  IN  <<JwtHeader, full, JwtSignature(key, JwtHeader, full)>>

\* A token issued for one hour instead of one day.
generateTokenOneHour(userId, t) == JwtSign([id |-> userId], JWT_SECRET, 3600, t)

\* utils/generateToken.js
generateToken(userId, t) == JwtSign([id |-> userId], JWT_SECRET, OneDaySeconds, t)

\* jwt.decode in place of jwt.verify: the signature is not checked.
JwtVerifyUnsigned(token, key, t) ==
  IF Len(token) # 3
  THEN [ok |-> FALSE, error |-> "JsonWebTokenError", message |-> "jwt malformed"]
  ELSE IF t >= token[2].exp
  THEN [ok |-> FALSE, error |-> "TokenExpiredError", message |-> "jwt expired"]
  ELSE [ok |-> TRUE, payload |-> token[2]]

\* jwt.verify accepting a token at the second of its expiry.
JwtVerifyLate(token, key, t) ==
  IF Len(token) # 3
  THEN [ok |-> FALSE, error |-> "JsonWebTokenError", message |-> "jwt malformed"]
  ELSE IF token[3] # JwtSignature(key, token[1], token[2])
  THEN [ok |-> FALSE, error |-> "JsonWebTokenError", message |-> "invalid signature"]
  ELSE IF t > token[2].exp
  THEN [ok |-> FALSE, error |-> "TokenExpiredError", message |-> "jwt expired"]
  ELSE [ok |-> TRUE, payload |-> token[2]]

\* jwt.verify(token, secret) at clock value t: the decoded payload, or the
\* name of the error thrown.
JwtVerify(token, key, t) ==
  IF Len(token) # 3
  THEN [ok |-> FALSE, error |-> "JsonWebTokenError", message |-> "jwt malformed"]
  ELSE IF token[3] # JwtSignature(key, token[1], token[2])
  THEN [ok |-> FALSE, error |-> "JsonWebTokenError", message |-> "invalid signature"]
  ELSE IF t >= token[2].exp
  THEN [ok |-> FALSE, error |-> "TokenExpiredError", message |-> "jwt expired"]
  ELSE [ok |-> TRUE, payload |-> token[2]]

\* ----------------------------------------- Error Translator (errorHandler)
RECURSIVE Join(_)
Join(s) == IF s = <<>> THEN "" ELSE Head(s) \o Join(Tail(s))

\* An error object: name, message, statusCode (0: not set), code (0: not
\* set), keyValue (duplicate key), errors (schema validation), array
\* (express-validator result; hasArray tells whether err.array is a function).
BaseError ==
  [name |-> "Error", message |-> "", statusCode |-> 0, code |-> 0,
   keyField |-> "", keyValue |-> <<>>, errors |-> <<>>, hasArray |-> FALSE,
   array |-> <<>>, stack |-> "Error\n    at <stack frames>"]

\* class AppError
AppError(message, statusCode) ==
  [BaseError EXCEPT !.message = message, !.statusCode = statusCode]

PlainError(message) == [BaseError EXCEPT !.message = message]

NamedError(name, message) == [BaseError EXCEPT !.name = name, !.message = message]

\* Mongoose ValidationError: errors is a sequence of [path, message].
MongooseValidationError(errors) ==
  [BaseError EXCEPT !.name = "ValidationError", !.message = "User validation failed",
                    !.errors = errors]

\* MongoServerError E11000 on the unique index of `field`.
DuplicateKeyError(field, value) ==
  [BaseError EXCEPT !.name = "MongoServerError", !.code = 11000,
                    !.message = "E11000 duplicate key error collection",
                    !.keyField = field, !.keyValue = value]

\* Mongoose CastError (a malformed ObjectId).
CastError == NamedError("CastError", "Cast to ObjectId failed")

\* notFound: the error for a route that does not exist.
notFound(url) == AppError("Not Found - " \o url, 404)

NodeEnvs == {"development", "production"}

JsonBody(message) == [success |-> FALSE, message |-> message]

\* middleware/errorMiddleware.js errorHandler: the response it sends.
errorHandler(e, env) ==
  LET error0 == [statusCode |-> e.statusCode, message |-> e.message]
      error1 == IF e.name = "CastError"
                THEN [statusCode |-> 404, message |-> "Resource not found"]
                ELSE error0
      error2 == IF e.code = 11000
                THEN [statusCode |-> 400,
                      message |-> e.keyField \o " '" \o Join(e.keyValue) \o "' already exists"]
                ELSE error1
      error3 == IF e.name = "JsonWebTokenError"
                THEN [statusCode |-> 401, message |-> "Invalid token"]
                ELSE error2
      error4 == IF e.name = "TokenExpiredError"
                THEN [statusCode |-> 401, message |-> "Token expired"]
                ELSE error3
      statusCode == IF error4.statusCode # 0 THEN error4.statusCode ELSE 500
      message == IF error4.message # "" THEN error4.message ELSE "Server Error"
  IN  IF e.name = "ValidationError"
      THEN [status |-> 400,
            body |-> [success |-> FALSE, message |-> "Validation failed",
                      errors |-> [i \in 1..Len(e.errors) |->
                                    [field |-> e.errors[i].path,
                                     message |-> e.errors[i].message]]]]
      ELSE IF e.hasArray
      THEN [status |-> 400,
            body |-> [success |-> FALSE, message |-> "Validation failed",
                      errors |-> [i \in 1..Len(e.array) |->
                                    [field |-> e.array[i].path,
                                     message |-> e.array[i].msg]]]]
      ELSE [status |-> statusCode,
            body |-> IF env = "development"
                     THEN [success |-> FALSE, message |-> message, stack |-> e.stack]
                     ELSE JsonBody(message)]

\* ------------------------------------------------------ Record Store (Task)
TitleMaxLen == 200
DescriptionMaxLen == 1000

\* The enum with "not-started" in the place of "todo".
StatusValuesNotStarted == {"not-started", "in-progress", "completed"}

\* The status values of the Task schema enum and of the express validators.
StatusValues == {"todo", "in-progress", "completed"}

DefaultStatus == "todo"

\* ObjectIds are the positive integers; 0 stands for a string that does not
\* cast to an ObjectId.
BadId == 0

IsObjectId(id) == id > 0

ISODates == {"2030-01-31"}

\* express-validator isISO8601()
IsISO8601(d) == d \in ISODates

\* The words of a string, split at white space.
RECURSIVE Tokenize(_)
Tokenize(s) ==
  LET t == TrimLeft(s)
      spaces == {i \in 1..Len(t) : IsSpace(t[i])}
      cut == IF spaces = {} THEN Len(t) + 1
             ELSE CHOOSE i \in spaces : \A j \in spaces : i <= j
  IN  IF t = <<>> THEN {}
      ELSE {SubSeq(t, 1, cut - 1)} \cup Tokenize(SubSeq(t, cut, Len(t)))

TextOf(doc, f) == IF Has(doc, f) THEN doc[f] ELSE <<>>

\* The $text operator on the {title, description} text index: the search
\* string is split into terms, terms and indexed words are case-folded, and
\* a document matches when one of its words equals one of the terms.
\* (Stemming, stop words, phrases and negated terms are not modelled.)
TextMatches(doc, search) ==
  LET terms == Tokenize(ToLower(search))
      words == Tokenize(ToLower(TextOf(doc, "title")))
                 \cup Tokenize(ToLower(TextOf(doc, "description")))
  IN  terms \cap words # {}

\* Task.find with a query that lacks the user field.
FindIdsAnyOwner(store, query) ==
  {t \in DOMAIN store :
     /\ Has(query, "status") => store[t].status = query.status
     /\ Has(query, "text") => TextMatches(store[t], query.text)}

\* Task.find(query): the ids of the stored tasks the query selects.
FindIds(store, query) ==
  {t \in DOMAIN store :
     /\ store[t].user = query.user
     /\ (Has(query, "status") => store[t].status = query.status)
     /\ (Has(query, "text") => TextMatches(store[t], query.text))}

\* The order of .sort({createdAt: 1}): oldest first.
SortsBeforeAscending(store, t1, t2) ==
  \/ store[t1].createdAt < store[t2].createdAt
  \/ store[t1].createdAt = store[t2].createdAt /\ t1 < t2

\* t1 comes before t2 under .sort({createdAt: -1}); equal timestamps keep
\* natural (insertion) order.
SortsBefore(store, t1, t2) ==
  \/ store[t1].createdAt > store[t2].createdAt
  \/ store[t1].createdAt = store[t2].createdAt /\ t1 < t2

\* Task.find(query).sort({createdAt: -1}) as a sequence of documents.
RECURSIVE SortedDocs(_, _)
SortedDocs(store, ids) ==
  IF ids = {} THEN <<>>
  ELSE LET first == CHOOSE t \in ids : \A u \in ids \ {t} : SortsBefore(store, t, u)
       IN  <<store[first]>> \o SortedDocs(store, ids \ {first})

\* Mongoose validation of a Task document (required, maxlength, enum).
TaskSchemaErrors(doc) ==
  (IF TextOf(doc, "title") = <<>>
   THEN << [path |-> "title", message |-> "Title is required"] >>
   ELSE IF Len(doc.title) > TitleMaxLen
        THEN << [path |-> "title", message |-> "Title cannot exceed 200 characters"] >>
        ELSE << >>)
  \o
  (IF Len(TextOf(doc, "description")) > DescriptionMaxLen
   THEN << [path |-> "description", message |-> "Description cannot exceed 1000 characters"] >>
   ELSE << >>)
  \o
  (IF doc.status \notin StatusValues
   THEN << [path |-> "status", message |-> "Status must be todo, in-progress, or completed"] >>
   ELSE << >>)

\* taskSchema.methods.toJSON
TaskToJSON(doc) == Drop(doc, {"__v"})

\* ------------------------------------------------ express-validator chains
\* Each chain yields the sanitised body and a sequence of {path, msg}.
TrimField(body, f) == IF Has(body, f) THEN Put(body, f, Trim(body[f])) ELSE body

\* createTaskValidation / updateTaskValidation sanitizers (.trim()).
SanitizeTaskBody(body) == TrimField(TrimField(body, "title"), "description")

StatusErrors(b) ==
  IF Has(b, "status") /\ b.status \notin StatusValues
  THEN << [path |-> "status", msg |-> "Status must be todo, in-progress, or completed"] >>
  ELSE << >>

DescriptionErrors(b) ==
  IF Has(b, "description") /\ Len(b.description) > DescriptionMaxLen
  THEN << [path |-> "description", msg |-> "Description cannot exceed 1000 characters"] >>
  ELSE << >>

DueDateErrors(b) ==
  IF Has(b, "dueDate") /\ ~IsISO8601(b.dueDate)
  THEN << [path |-> "dueDate", msg |-> "Due date must be a valid date"] >>
  ELSE << >>

\* createTaskValidation
createTaskValidation(body) ==
  LET b == SanitizeTaskBody(body)
  IN  (IF TextOf(b, "title") = <<>>
       THEN << [path |-> "title", msg |-> "Title is required"] >>
       ELSE IF Len(b.title) > TitleMaxLen
            THEN << [path |-> "title", msg |-> "Title cannot exceed 200 characters"] >>
            ELSE << >>)
      \o DescriptionErrors(b) \o StatusErrors(b) \o DueDateErrors(b)

\* updateTaskValidation
updateTaskValidation(body) ==
  LET b == SanitizeTaskBody(body)
  IN  (IF ~Has(b, "title") THEN << >>
       ELSE IF b.title = <<>>
            THEN << [path |-> "title", msg |-> "Title cannot be empty"] >>
            ELSE IF Len(b.title) > TitleMaxLen
                 THEN << [path |-> "title", msg |-> "Title cannot exceed 200 characters"] >>
                 ELSE << >>)
      \o DescriptionErrors(b) \o StatusErrors(b) \o DueDateErrors(b)

\* validator.isEmail: the schema regex shape, with exactly one "@".
IsEmail(s) ==
  /\ MatchesEmailRegex(s)
  /\ Cardinality({i \in 1..Len(s) : s[i] = "@"}) = 1

\* validator.normalizeEmail (all_lowercase), applied when the value is an email.
NormalizeEmail(s) == IF IsEmail(s) THEN ToLower(s) ELSE s

\* updateProfileValidation sanitizers: name .trim(); email .trim().normalizeEmail()
SanitizeProfileBody(body) ==
  LET b1 == TrimField(TrimField(body, "name"), "email")
  IN  IF Has(b1, "email") THEN Put(b1, "email", NormalizeEmail(b1.email)) ELSE b1

NameMinLen == 2

\* updateProfileValidation
updateProfileValidation(body) ==
  LET b == TrimField(TrimField(body, "name"), "email")
  IN  (IF Has(b, "name") /\ (Len(b.name) < NameMinLen \/ Len(b.name) > NameMaxLen)
       THEN << [path |-> "name", msg |-> "Name must be between 2 and 100 characters"] >>
       ELSE << >>)
      \o
      (IF Has(b, "email") /\ ~IsEmail(b.email)
       THEN << [path |-> "email", msg |-> "Please provide a valid email address"] >>
       ELSE << >>)

\* errors.array().map(err => ({field: err.path, message: err.msg}))
FieldErrors(errs) ==
  [i \in 1..Len(errs) |-> [field |-> errs[i].path, message |-> errs[i].msg]]

\* ------------------------------------------------------------- requests
NoResp == [status |-> 0, body |-> <<>>]

\* A request slot.  cred records how the client came by the token it sends
\* (history, not read by the server).  guard is the Auth Guard state of the request; ran tells
\* whether the route handler was invoked; sent counts the responses written.
NoReq ==
  [pc |-> "idle", op |-> "none", token |-> <<>>, id |-> BadId, body |-> <<>>,
   query |-> <<>>, cred |-> [kind |-> "none"], guard |-> "Unauthenticated",
   ran |-> FALSE, decoded |-> <<>>,
   user |-> <<>>, doc |-> <<>>, modified |-> {}, sent |-> 0, resp |-> NoResp]

\* res.status(status).json(body), ending the request.
Respond(req, status, body) ==
  [req EXCEPT !.pc = "done", !.sent = @ + 1, !.resp = [status |-> status, body |-> body]]

\* next(error): the request ends with the Error Translator's response.
NextError(req, e) ==
  LET out == errorHandler(e, nodeEnv)
  IN  Respond(req, out.status, out.body)

\* protect, lines 12-32: the cookie check and jwt.verify, up to the await
\* of User.findById.
ProtectVerify(req) ==
  IF req.token = <<>>
  THEN Respond(req, 401, JsonBody("Not authorized, no token provided"))
  ELSE LET v == JwtVerify(req.token, JWT_SECRET, now)
       IN  IF v.ok
           THEN [req EXCEPT !.pc = "protect_findUser", !.guard = "Verifying",
                            !.decoded = v.payload]
           ELSE IF v.error = "JsonWebTokenError"
           THEN Respond([req EXCEPT !.guard = "Rejected"], 401,
                        JsonBody("Not authorized, invalid token"))
           ELSE IF v.error = "TokenExpiredError"
           THEN Respond([req EXCEPT !.guard = "Rejected"], 401,
                        JsonBody("Not authorized, token expired"))
           ELSE Respond([req EXCEPT !.guard = "Rejected"], 401,
                        JsonBody("Not authorized, token verification failed"))

\* createTask, lines 52-65: the validation result check.
createTaskEnter(req) ==
  LET errs == createTaskValidation(req.body)
  IN  IF errs # <<>>
      THEN Respond(req, 400, [success |-> FALSE, message |-> "Validation failed",
                              errors |-> FieldErrors(errs)])
      ELSE [req EXCEPT !.pc = "createTask_create", !.body = SanitizeTaskBody(req.body)]

\* A query-string or body value is truthy when present and not empty
\* (status values are atoms, text values are character sequences).
TruthyAtom(obj, f) == Has(obj, f) /\ obj[f] # ""

Truthy(obj, f) == Has(obj, f) /\ obj[f] # <<>>

\* getTasks adding the search filter only when no status filter is given.
getTasksEnterStatusFirst(req) ==
  LET q0 == [user |-> req.user._id]
      q1 == IF TruthyAtom(req.query, "status") THEN Put(q0, "status", req.query.status)
            ELSE IF Truthy(req.query, "search") THEN Put(q0, "text", req.query.search)
            ELSE q0
  IN  IF TruthyAtom(req.query, "status") /\ req.query.status \notin StatusValues
      THEN Respond(req, 400,
                   JsonBody("Invalid status value. Must be todo, in-progress, or completed"))
      ELSE [req EXCEPT !.pc = "getTasks_find", !.doc = q1]

\* getTasks, lines 94-113: building the query.
getTasksEnter(req) ==
  LET q0 == [user |-> req.user._id]
      q1 == IF TruthyAtom(req.query, "status") THEN Put(q0, "status", req.query.status) ELSE q0
      q2 == IF Truthy(req.query, "search") THEN Put(q1, "text", req.query.search) ELSE q1
  IN  IF TruthyAtom(req.query, "status") /\ req.query.status \notin StatusValues
      THEN Respond(req, 400,
                   JsonBody("Invalid status value. Must be todo, in-progress, or completed"))
      ELSE [req EXCEPT !.pc = "getTasks_find", !.doc = q2]

\* updateTask, lines 169-180: the validation result check.
updateTaskEnter(req) ==
  LET errs == updateTaskValidation(req.body)
  IN  IF errs # <<>>
      THEN Respond(req, 400, [success |-> FALSE, message |-> "Validation failed",
                              errors |-> FieldErrors(errs)])
      ELSE [req EXCEPT !.pc = "updateTask_find", !.body = SanitizeTaskBody(req.body)]

\* updateProfile, lines 59-70: the validation result check.
updateProfileEnter(req) ==
  LET errs == updateProfileValidation(req.body)
  IN  IF errs # <<>>
      THEN Respond(req, 400, [success |-> FALSE, message |-> "Validation failed",
                              errors |-> FieldErrors(errs)])
      ELSE [req EXCEPT !.pc = "updateProfile_find", !.body = SanitizeProfileBody(req.body)]

\* routes/taskRoutes.js and routes/userRoutes.js: what runs after protect
\* calls next(): the validation chain and the handler up to its first await.
Dispatch(req) ==
  LET r == [req EXCEPT !.ran = TRUE]
  IN  CASE req.op = "createTask"    -> createTaskEnter(r)
        [] req.op = "getTasks"      -> getTasksEnter(r)
        [] req.op = "getTaskById"   -> [r EXCEPT !.pc = "getTaskById_find"]
        [] req.op = "updateTask"    -> updateTaskEnter(r)
        [] req.op = "deleteTask"    -> [r EXCEPT !.pc = "deleteTask_find"]
        [] req.op = "getProfile"    -> [r EXCEPT !.pc = "getProfile_find"]
        [] req.op = "updateProfile" -> updateProfileEnter(r)

\* protect without the return after its 401 for a missing user: next() is
\* called, the handler throws on req.user and the Error Translator answers
\* a second time.
ProtectResolveNoReturn(req, store) ==
  IF ~IsObjectId(req.decoded.id)
  THEN Respond([req EXCEPT !.guard = "Rejected"], 401,
               JsonBody("Not authorized, token verification failed"))
  ELSE IF req.decoded.id \notin DOMAIN store
  THEN NextError([Respond([req EXCEPT !.guard = "Rejected"], 401,
                          JsonBody("Not authorized, user not found"))
                    EXCEPT !.ran = TRUE],
                 NamedError("TypeError", "Cannot read properties of null"))
  ELSE Dispatch([req EXCEPT !.guard = "Authenticated",
                            !.user = SelectNoPassword(store[req.decoded.id])])

\* protect, lines 32-42: the result of User.findById(decoded.id)
\* .select('-password'), then next().
ProtectResolve(req, store) ==
  IF ~IsObjectId(req.decoded.id)
  THEN Respond([req EXCEPT !.guard = "Rejected"], 401,
               JsonBody("Not authorized, token verification failed"))
  ELSE IF req.decoded.id \notin DOMAIN store
  THEN Respond([req EXCEPT !.guard = "Rejected"], 401,
               JsonBody("Not authorized, user not found"))
  ELSE Dispatch([req EXCEPT !.guard = "Authenticated",
                            !.user = SelectNoPassword(store[req.decoded.id])])

\* ------------------------------------------------------- client credentials
ATTACKER_KEY == "not-the-server-secret"

\* The token cookie a client holds: none, a string that is no JWT, a JWT
\* signed with another key, or one minted by generateToken for id at time at.
TokenOf(cred) ==
  CASE cred.kind = "none"      -> <<>>
    [] cred.kind = "malformed" -> <<"invalid.token.format">>
    [] cred.kind = "forged"    -> JwtSign([id |-> cred.id], ATTACKER_KEY, OneDaySeconds, cred.at)
    [] cred.kind = "issued"    -> generateToken(cred.id, cred.at)

Busy(r) == reqs[r].pc \notin {"idle", "done"}

SetReq(r, req) == reqs' = [reqs EXCEPT ![r] = req]

\* A new request takes the lowest free slot; the records of the requests
\* that have already been answered are dropped.
FreeSlot(r) == ~Busy(r) /\ \A q \in Slots : q < r => Busy(q)

Admit(r, req) ==
  reqs' = [q \in Slots |-> IF q = r THEN req ELSE IF Busy(q) THEN reqs[q] ELSE NoReq]

\* ------------------------------------------------------------- actions
\* A protected request arrives: protect runs up to its first await.
Start(r, op, cred, id, body, query) ==
  /\ FreeSlot(r)
  /\ ops < MaxOps
  /\ op = "createTask" =>
       nextTaskId + Cardinality({q \in Slots : Busy(q) /\ reqs[q].op = "createTask"})
         <= MaxTasks
  /\ ops' = ops + 1
  /\ Admit(r, ProtectVerify([NoReq EXCEPT !.op = op, !.cred = cred,
                                          !.token = TokenOf(cred), !.id = id,
                                          !.body = body, !.query = query]))
  /\ UNCHANGED <<users, tasks, nextUserId, nextTaskId, now, ticks, plain, creator,
                 nodeEnv, err, eresp>>

\* protect: User.findById(decoded.id).select('-password') completes.
ProtectFindUser(r) ==
  /\ reqs[r].pc = "protect_findUser"
  /\ SetReq(r, ProtectResolve(reqs[r], users))
  /\ UNCHANGED <<users, tasks, nextUserId, nextTaskId, now, ticks, ops, plain,
                 creator, nodeEnv, err, eresp>>

\* createTask, lines 65-74: the document handed to Task.create.
NewTask(req, id, t) ==
  LET b == req.body
      d0 == [_id |-> id, title |-> b.title,
             status |-> IF TruthyAtom(b, "status") THEN b.status ELSE DefaultStatus,
             user |-> req.user._id, createdAt |-> t, updatedAt |-> t, __v |-> 0]
      d1 == IF Has(b, "description") THEN Put(d0, "description", b.description) ELSE d0
  IN  IF Has(b, "dueDate") THEN Put(d1, "dueDate", b.dueDate) ELSE d1

\* createTask: Task.create completes.
CreateTaskCreate(r) ==
  LET req == reqs[r]
      doc == NewTask(req, nextTaskId, now)
      errs == TaskSchemaErrors(doc)
  IN  /\ req.pc = "createTask_create"
      /\ IF errs # <<>>
         THEN /\ SetReq(r, NextError(req, [BaseError EXCEPT !.name = "ValidationError",
                                                     !.message = "Task validation failed",
                                                     !.errors = errs]))
              /\ UNCHANGED <<tasks, nextTaskId, creator>>
         ELSE /\ tasks' = (nextTaskId :> doc) @@ tasks
              /\ nextTaskId' = nextTaskId + 1
              /\ creator' = (nextTaskId :> req.user._id) @@ creator
              /\ SetReq(r, Respond([req EXCEPT !.doc = doc], 201,
                                   [success |-> TRUE, message |-> "Task created successfully",
                                    data |-> [task |-> TaskToJSON(doc)]]))
      /\ UNCHANGED <<users, nextUserId, now, ticks, ops, plain, nodeEnv, err, eresp>>

\* getTasks, lines 116-122: the response for the query built on entry.
getTasksRespond(req, store) ==
  LET found == SortedDocs(store, FindIds(store, req.doc))
  IN  Respond(req, 200,
              [success |-> TRUE, count |-> Len(found),
               data |-> [tasks |-> [i \in 1..Len(found) |-> TaskToJSON(found[i])]]])

\* getTasks: Task.find(query).sort(...) completes.
GetTasksFind(r) ==
  /\ reqs[r].pc = "getTasks_find"
  /\ SetReq(r, getTasksRespond(reqs[r], tasks))
  /\ UNCHANGED <<users, tasks, nextUserId, nextTaskId, now, ticks, ops, plain,
                 creator, nodeEnv, err, eresp>>

\* getTaskById answering 403 when the task belongs to another user.
getTaskByIdRespondForbidden(req, store) ==
  IF ~IsObjectId(req.id) THEN NextError(req, CastError)
  ELSE IF req.id \notin DOMAIN store
  THEN Respond(req, 404, JsonBody("Task not found"))
  ELSE IF store[req.id].user # req.user._id
  THEN Respond(req, 403, JsonBody("Not authorized to access this task"))
  ELSE Respond(req, 200, [success |-> TRUE,
                          data |-> [task |-> TaskToJSON(store[req.id])]])

\* getTaskById, lines 135-156, given the store Task.findById reads.
getTaskByIdRespond(req, store) ==
  IF ~IsObjectId(req.id) THEN NextError(req, CastError)
  ELSE IF req.id \notin DOMAIN store
  THEN Respond(req, 404, JsonBody("Task not found"))
  ELSE IF store[req.id].user # req.user._id
  THEN Respond(req, 404, JsonBody("Task not found"))
  ELSE Respond(req, 200, [success |-> TRUE,
                          data |-> [task |-> TaskToJSON(store[req.id])]])

\* getTaskById: Task.findById completes.
GetTaskByIdFind(r) ==
  /\ reqs[r].pc = "getTaskById_find"
  /\ SetReq(r, getTaskByIdRespond(reqs[r], tasks))
  /\ UNCHANGED <<users, tasks, nextUserId, nextTaskId, now, ticks, ops, plain,
                 creator, nodeEnv, err, eresp>>

\* updateTask copying the user field of the body as well.
TaskFieldsWithUser == {"title", "description", "status", "dueDate", "user"}

TaskFields == {"title", "description", "status", "dueDate"}

\* doc.path = value on a Mongoose document: the path is marked modified only
\* when the value differs from the one the document holds.
Assign(req, f, v) ==
  IF Has(req.doc, f) /\ req.doc[f] = v THEN req
  ELSE [req EXCEPT !.doc = Put(req.doc, f, v), !.modified = @ \cup {f}]

RECURSIVE AssignAll(_, _, _)
AssignAll(req, body, fs) ==
  IF fs = {} THEN req
  ELSE LET f == CHOOSE g \in fs : TRUE
       IN  AssignAll(IF Has(body, f) THEN Assign(req, f, body[f]) ELSE req,
                     body, fs \ {f})

\* updateTask, lines 182-206, given the store Task.findById reads.
updateTaskLoad(req, store) ==
  IF ~IsObjectId(req.id) THEN NextError(req, CastError)
  ELSE IF req.id \notin DOMAIN store
  THEN Respond(req, 404, JsonBody("Task not found"))
  ELSE IF store[req.id].user # req.user._id
  THEN Respond(req, 403, JsonBody("Not authorized to update this task"))
  ELSE AssignAll([req EXCEPT !.pc = "updateTask_save", !.doc = store[req.id],
                             !.modified = {}],
                 req.body, TaskFields)

\* updateTask: Task.findById completes.
UpdateTaskFind(r) ==
  /\ reqs[r].pc = "updateTask_find"
  /\ SetReq(r, updateTaskLoad(reqs[r], tasks))
  /\ UNCHANGED <<users, tasks, nextUserId, nextTaskId, now, ticks, ops, plain,
                 creator, nodeEnv, err, eresp>>

DocumentNotFoundError ==
  NamedError("DocumentNotFoundError", "No document found for query")

\* document.save() setting updatedAt whether or not a path is modified.
SavedTaskAlwaysStamped(stored, doc, modified, t) ==
  LET merged == [f \in (DOMAIN stored) \cup modified |->
                   IF f \in modified THEN doc[f] ELSE stored[f]]
  IN  [merged EXCEPT !.updatedAt = t]

\* document.save() of a loaded document: the stored document after the write
\* of the modified paths; with timestamps, updatedAt is set when a path is
\* modified.
SavedTask(stored, doc, modified, t) ==
  LET merged == [f \in (DOMAIN stored) \cup modified |->
                   IF f \in modified THEN doc[f] ELSE stored[f]]
  IN  IF modified = {} THEN stored ELSE [merged EXCEPT !.updatedAt = t]

\* updateTask: task.save() completes (lines 209-215).
UpdateTaskSave(r) ==
  LET req == reqs[r]
      errs == TaskSchemaErrors(req.doc)
      out == IF req.modified = {} THEN req.doc ELSE [req.doc EXCEPT !.updatedAt = now]
  IN  /\ req.pc = "updateTask_save"
      /\ IF req.modified # {} /\ errs # <<>>
         THEN /\ SetReq(r, NextError(req, [BaseError EXCEPT !.name = "ValidationError",
                                                     !.message = "Task validation failed",
                                                     !.errors = errs]))
              /\ UNCHANGED tasks
         ELSE IF req.id \notin DOMAIN tasks
         THEN /\ SetReq(r, NextError(req, DocumentNotFoundError))
              /\ UNCHANGED tasks
         ELSE /\ tasks' = [tasks EXCEPT ![req.id] = SavedTask(@, req.doc, req.modified, now)]
              /\ SetReq(r, Respond([req EXCEPT !.doc = out], 200,
                                   [success |-> TRUE, message |-> "Task updated successfully",
                                    data |-> [task |-> TaskToJSON(out)]]))
      /\ UNCHANGED <<users, nextUserId, nextTaskId, now, ticks, ops, plain, creator,
                     nodeEnv, err, eresp>>

\* deleteTask, lines 228-244, given the store Task.findById reads.
deleteTaskLoad(req, store) ==
  IF ~IsObjectId(req.id) THEN NextError(req, CastError)
  ELSE IF req.id \notin DOMAIN store
  THEN Respond(req, 404, JsonBody("Task not found"))
  ELSE IF store[req.id].user # req.user._id
  THEN Respond(req, 403, JsonBody("Not authorized to delete this task"))
  ELSE [req EXCEPT !.pc = "deleteTask_deleteOne", !.doc = store[req.id]]

\* deleteTask with Task.findByIdAndDelete in the place of Task.findById: the
\* task is removed before the ownership check.
DeleteTaskFindAndDelete(r) ==
  /\ reqs[r].pc = "deleteTask_find"
  /\ SetReq(r, deleteTaskLoad(reqs[r], tasks))
  /\ tasks' = [t \in (DOMAIN tasks) \ {reqs[r].id} |-> tasks[t]]
  /\ UNCHANGED <<users, nextUserId, nextTaskId, now, ticks, ops, plain, creator,
                 nodeEnv, err, eresp>>

\* deleteTask: Task.findById completes.
DeleteTaskFind(r) ==
  /\ reqs[r].pc = "deleteTask_find"
  /\ SetReq(r, deleteTaskLoad(reqs[r], tasks))
  /\ UNCHANGED <<users, tasks, nextUserId, nextTaskId, now, ticks, ops, plain,
                 creator, nodeEnv, err, eresp>>

\* deleteTask: task.deleteOne() completes (lines 247-252); removing a
\* document that is already gone is not an error.
DeleteTaskDeleteOne(r) ==
  /\ reqs[r].pc = "deleteTask_deleteOne"
  /\ tasks' = [t \in (DOMAIN tasks) \ {reqs[r].id} |-> tasks[t]]
  /\ SetReq(r, Respond(reqs[r], 200,
                       [success |-> TRUE, message |-> "Task deleted successfully"]))
  /\ UNCHANGED <<users, nextUserId, nextTaskId, now, ticks, ops, plain, creator,
                 nodeEnv, err, eresp>>

\* The user object of the getProfile / updateProfile response bodies.
ProfileView(u) ==
  [_id |-> u._id, name |-> u.name, email |-> u.email, createdAt |-> u.createdAt]

\* getProfile, lines 27-46, given the store User.findById reads.
getProfileRespond(req, store) ==
  IF req.user._id \notin DOMAIN store
  THEN Respond(req, 404, JsonBody("User not found"))
  ELSE Respond(req, 200,
               [success |-> TRUE,
                data |-> [user |-> ProfileView(SelectNoPassword(store[req.user._id]))]])

\* getProfile: User.findById completes.
GetProfileFind(r) ==
  /\ reqs[r].pc = "getProfile_find"
  /\ SetReq(r, getProfileRespond(reqs[r], users))
  /\ UNCHANGED <<users, tasks, nextUserId, nextTaskId, now, ticks, ops, plain,
                 creator, nodeEnv, err, eresp>>

\* updateProfile, lines 72-88, given the store User.findById reads.
updateProfileLoad(req, store) ==
  IF req.user._id \notin DOMAIN store
  THEN Respond(req, 404, JsonBody("User not found"))
  ELSE LET loaded == [req EXCEPT !.doc = store[req.user._id], !.modified = {}]
           named == IF Truthy(req.body, "name")
                    THEN Assign(loaded, "name", NameSetter(req.body.name))
                    ELSE loaded
       IN  [named EXCEPT !.pc = IF Truthy(req.body, "email")
                                THEN "updateProfile_findOne"
                                ELSE "updateProfile_save"]

\* updateProfile: User.findById completes.
UpdateProfileFind(r) ==
  /\ reqs[r].pc = "updateProfile_find"
  /\ SetReq(r, updateProfileLoad(reqs[r], users))
  /\ UNCHANGED <<users, tasks, nextUserId, nextTaskId, now, ticks, ops, plain,
                 creator, nodeEnv, err, eresp>>

\* updateProfile, lines 88-101, given the store User.findOne reads.
updateProfileCheckEmail(req, store) ==
  IF EmailTaken(store, EmailSetter(req.body.email), req.doc._id)
  THEN Respond(req, 400, JsonBody("Email is already in use"))
  ELSE [Assign(req, "email", EmailSetter(req.body.email))
          EXCEPT !.pc = "updateProfile_save"]

\* updateProfile: User.findOne({email, _id: {$ne}}) completes.
UpdateProfileFindOne(r) ==
  /\ reqs[r].pc = "updateProfile_findOne"
  /\ SetReq(r, updateProfileCheckEmail(reqs[r], users))
  /\ UNCHANGED <<users, tasks, nextUserId, nextTaskId, now, ticks, ops, plain,
                 creator, nodeEnv, err, eresp>>

\* The paths of a document that Mongoose validates on save.
ModifiedErrors(errs, modified) ==
  SelectSeq(errs, LAMBDA e : e.path \in modified)

\* user.save() against a collection without the unique email index.
UserSaveNoIndex(store, doc, modified, salt) ==
  LET hashed == PreSave(doc, modified, salt)
      errs == ModifiedErrors(UserSchemaErrors(doc), modified)
  IN  IF errs # <<>>
      THEN [store |-> store, doc |-> doc, error |-> "ValidationError", errors |-> errs]
      ELSE IF doc._id \notin DOMAIN store
      THEN [store |-> store, doc |-> doc, error |-> "DocumentNotFoundError", errors |-> <<>>]
      ELSE LET written == modified \cup {f \in DOMAIN doc : hashed[f] # doc[f]}
           IN  [store |-> [store EXCEPT ![doc._id] =
                             [f \in DOMAIN @ |-> IF f \in written THEN hashed[f] ELSE @[f]]],
                doc |-> hashed, error |-> "", errors |-> <<>>]

\* user.save() of a loaded document: pre-save hook, validation of the
\* modified paths, then the write, which the unique email index can refuse.
\* Yields the new store and the error thrown ("" when none).
UserSave(store, doc, modified, salt) ==
  LET hashed == PreSave(doc, modified, salt)
      errs == ModifiedErrors(UserSchemaErrors(doc), modified)
  IN  IF errs # <<>>
      THEN [store |-> store, doc |-> doc, error |-> "ValidationError", errors |-> errs]
      ELSE IF doc._id \notin DOMAIN store
      THEN [store |-> store, doc |-> doc, error |-> "DocumentNotFoundError", errors |-> <<>>]
      ELSE IF "email" \in modified /\ EmailTaken(store, hashed.email, doc._id)
      THEN [store |-> store, doc |-> doc, error |-> "DuplicateKey", errors |-> <<>>]
      ELSE LET written == modified \cup {f \in DOMAIN doc : hashed[f] # doc[f]}
           IN  [store |-> [store EXCEPT ![doc._id] =
                             [f \in DOMAIN @ |-> IF f \in written THEN hashed[f] ELSE @[f]]],
                doc |-> hashed, error |-> "", errors |-> <<>>]

\* The error object a failed save throws.
SaveError(res) ==
  CASE res.error = "ValidationError" -> MongooseValidationError(res.errors)
    [] res.error = "DuplicateKey" -> DuplicateKeyError("email", res.doc.email)
    [] OTHER -> DocumentNotFoundError

\* updateProfile: user.save() completes (lines 104-117).
UpdateProfileSave(r) ==
  \E salt \in Salts :
    LET req == reqs[r]
        res == UserSave(users, req.doc, req.modified, salt)
    IN  /\ req.pc = "updateProfile_save"
        /\ users' = res.store
        /\ IF res.error # ""
           THEN SetReq(r, NextError(req, SaveError(res)))
           ELSE SetReq(r, Respond([req EXCEPT !.doc = res.doc], 200,
                                  [success |-> TRUE,
                                   message |-> "Profile updated successfully",
                                   data |-> [user |-> ProfileView(res.doc)]]))
        /\ UNCHANGED <<tasks, nextUserId, nextTaskId, now, ticks, ops, plain, creator,
                       nodeEnv, err, eresp>>

\* new User(body): the schema setters applied to the given fields.
NewUser(body, id, t) ==
  [_id |-> id, name |-> NameSetter(body.name), email |-> EmailSetter(body.email),
   password |-> body.password, createdAt |-> t, __v |-> 0]

\* User.create(body): validation, pre-save hook, then the insert, which the
\* unique email index can refuse.
UserCreateResult(store, body, id, t, salt) ==
  LET doc == NewUser(body, id, t)
      errs == UserSchemaErrors(doc)
      hashed == PreSave(doc, {"name", "email", "password"}, salt)
  IN  IF errs # <<>>
      THEN [store |-> store, doc |-> doc, error |-> "ValidationError", errors |-> errs]
      ELSE IF EmailTaken(store, hashed.email, id)
      THEN [store |-> store, doc |-> doc, error |-> "DuplicateKey", errors |-> <<>>]
      ELSE [store |-> (id :> hashed) @@ store, doc |-> hashed, error |-> "",
            errors |-> <<>>]

\* A request that creates a user arrives (no Auth Guard on this route).
StartRegister(r, body) ==
  /\ FreeSlot(r)
  /\ ops < MaxOps
  /\ nextUserId + Cardinality({q \in Slots : Busy(q) /\ reqs[q].op = "register"})
       <= MaxUsers
  /\ ops' = ops + 1
  /\ Admit(r, [NoReq EXCEPT !.op = "register", !.pc = "register_create",
                            !.body = body, !.ran = TRUE])
  /\ UNCHANGED <<users, tasks, nextUserId, nextTaskId, now, ticks, plain, creator,
                 nodeEnv, err, eresp>>

\* User.create completes; a failure goes to the Error Translator.
UserCreate(r) ==
  \E salt \in Salts :
    LET req == reqs[r]
        res == UserCreateResult(users, req.body, nextUserId, now, salt)
    IN  /\ req.pc = "register_create"
        /\ users' = res.store
        /\ IF res.error # ""
           THEN /\ SetReq(r, NextError(req, SaveError(res)))
                /\ UNCHANGED <<nextUserId, plain>>
           ELSE /\ SetReq(r, Respond([req EXCEPT !.doc = res.doc], 200,
                                     [success |-> TRUE]))
                /\ nextUserId' = nextUserId + 1
                /\ plain' = (nextUserId :> req.body.password) @@ plain
        /\ UNCHANGED <<tasks, nextTaskId, now, ticks, ops, creator, nodeEnv, err, eresp>>

\* Time passes.
Tick(d) ==
  /\ ticks < MaxTicks
  /\ ticks' = ticks + 1
  /\ now' = now + d
  /\ UNCHANGED <<users, tasks, nextUserId, nextTaskId, reqs, ops, plain, creator,
                 nodeEnv, err, eresp>>

\* ------------------------------------------------------------------ inputs
Letters == <<"a", "b", "c", "d">>

NameOf(i) == <<"U", Letters[i]>>

EmailOf(i) == <<Letters[i], "@", "x", ".", "c">>

PasswordOf(i) == <<"s", "e", "c", "r", "e", Letters[i]>>

\* The registration data of the i-th user.
SeedBody(i) == [name |-> NameOf(i), email |-> EmailOf(i), password |-> PasswordOf(i)]

\* The two registered users of the Task Service specifications.
Owners == {1, 2}

\* The Credential Store after users 1..n registered at time 0.
RECURSIVE Registered(_)
Registered(n) ==
  IF n = 0 THEN <<>>
  ELSE UserCreateResult(Registered(n - 1), SeedBody(n), n, 0, "s1").store

T_ab == <<"a", "b">>
T_Ab_c == <<"A", "b", " ", "c">>
T_abc == <<"a", "b", "c">>
T_blank == <<" ">>

NoFields == [f \in {} |-> ""]

\* The Record Store after user 1 created a task and then user 2 did, at time 0.
SeedTasks ==
  LET mk(u, id, b) ==
        NewTask([NoReq EXCEPT !.user = SelectNoPassword(Registered(2)[u]), !.body = b],
                id, 0)
  IN  (1 :> mk(1, 1, [title |-> T_ab])) @@
      (2 :> mk(2, 2, [title |-> T_Ab_c, description |-> T_abc, status |-> "completed"]))

\* Bodies of createTask: a valid one without a status that also names an
\* owner, and one whose status is not in the enum.
CreateBodies ==
  { [title |-> <<" ", "c", " ">>, user |-> 2],
    [title |-> T_ab, status |-> "not-started"] }

\* Bodies of updateTask: a valid one that also names an owner, and one whose
\* title trims to empty and whose status is not in the enum.
UpdateBodies ==
  { [title |-> T_abc, status |-> "completed", user |-> 2],
    [title |-> T_blank, status |-> "not-started"] }

\* Query strings of getTasks: each filter alone, both, a status that is not
\* in the enum, and an empty status (?status=).
ListQueries ==
  { [status |-> "completed"],
    [search |-> <<"C">>],
    [status |-> "completed", search |-> <<"C">>],
    [status |-> "not-started"],
    [status |-> ""] }

\* The id the first task created after the seeds gets.
FreshId == Cardinality(DOMAIN SeedTasks) + 1

\* The task ids requests name: user 1's seeded task, and the id that is
\* unused until some user creates a task.
TaskIds == {1, FreshId}

\* Clients holding a token minted at time 0 for a registered user.
OwnerCreds == {[kind |-> "issued", id |-> u, at |-> 0] : u \in Owners}

\* ---------------------------------------------------------- specifications
InitCommon ==
  /\ now = 0
  /\ ticks = 0
  /\ reqs = [r \in Slots |-> NoReq]
  /\ ops = 0
  /\ err = BaseError
  /\ eresp = NoResp

\* The Task Service with two registered users, each owning one task.
Init ==
  /\ InitCommon
  /\ nodeEnv = "production"
  /\ users = Registered(2)
  /\ nextUserId = 3
  /\ plain = [i \in Owners |-> PasswordOf(i)]
  /\ tasks = SeedTasks
  /\ nextTaskId = 3
  /\ creator = [t \in DOMAIN SeedTasks |-> SeedTasks[t].user]

StartCreateTask(r) ==
  \E c \in OwnerCreds, b \in CreateBodies :
    Start(r, "createTask", c, BadId, b, NoFields)

StartGetTasks(r) ==
  \E c \in OwnerCreds, q \in ListQueries \cup {NoFields} :
    Start(r, "getTasks", c, BadId, NoFields, q)

StartGetTaskById(r) ==
  \E c \in OwnerCreds, id \in TaskIds \cup {BadId} :
    Start(r, "getTaskById", c, id, NoFields, NoFields)

StartUpdateTask(r) ==
  \E c \in OwnerCreds, id \in TaskIds, b \in UpdateBodies :
    Start(r, "updateTask", c, id, b, NoFields)

StartDeleteTask(r) ==
  \E c \in OwnerCreds, id \in TaskIds :
    Start(r, "deleteTask", c, id, NoFields, NoFields)

Next ==
  \E r \in Slots :
    \/ StartCreateTask(r)
    \/ StartGetTasks(r)
    \/ StartGetTaskById(r)
    \/ StartUpdateTask(r)
    \/ StartDeleteTask(r)
    \/ ProtectFindUser(r)
    \/ CreateTaskCreate(r)
    \/ GetTasksFind(r)
    \/ GetTaskByIdFind(r)
    \/ UpdateTaskFind(r)
    \/ UpdateTaskSave(r)
    \/ DeleteTaskFind(r)
    \/ DeleteTaskDeleteOne(r)
    \/ Tick(1)

Spec == Init /\ [][Next]_vars

\* ---- the Auth Guard in front of every protected route
ProtectedOps ==
  {"createTask", "getTasks", "getTaskById", "updateTask", "deleteTask",
   "getProfile", "updateProfile"}

\* The id of a user that never registered.
GhostUser == Cardinality(Owners) + 1

\* What clients present: no cookie, a string that is no JWT, a JWT signed
\* with another key, and tokens minted at time 0 for a registered user, for
\* an id that is not in the Credential Store, and for an id that is no ObjectId.
GuardCreds ==
  { [kind |-> "none"], [kind |-> "malformed"],
    [kind |-> "forged", id |-> 1, at |-> 0] }
  \cup {[kind |-> "issued", id |-> u, at |-> 0] : u \in {1, GhostUser, BadId}}

\* One request per protected route.
RouteInput(op) ==
  CASE op = "createTask"    -> [id |-> BadId, body |-> [title |-> T_ab], query |-> NoFields]
    [] op = "getTasks"      -> [id |-> BadId, body |-> NoFields, query |-> NoFields]
    [] op = "getTaskById"   -> [id |-> 1, body |-> NoFields, query |-> NoFields]
    [] op = "updateTask"    -> [id |-> 1, body |-> [status |-> "completed"], query |-> NoFields]
    [] op = "deleteTask"    -> [id |-> 1, body |-> NoFields, query |-> NoFields]
    [] op = "getProfile"    -> [id |-> BadId, body |-> NoFields, query |-> NoFields]
    [] op = "updateProfile" -> [id |-> BadId, body |-> [name |-> <<"Z", "z">>],
                                query |-> NoFields]

StartProtected(r) ==
  \E op \in ProtectedOps, c \in GuardCreds :
    Start(r, op, c, RouteInput(op).id, RouteInput(op).body, RouteInput(op).query)

NextGuard ==
  \/ \E r \in Slots :
       \/ StartProtected(r)
       \/ ProtectFindUser(r)
       \/ CreateTaskCreate(r)
       \/ GetTasksFind(r)
       \/ GetTaskByIdFind(r)
       \/ UpdateTaskFind(r)
       \/ UpdateTaskSave(r)
       \/ DeleteTaskFind(r)
       \/ DeleteTaskDeleteOne(r)
       \/ GetProfileFind(r)
       \/ UpdateProfileFind(r)
       \/ UpdateProfileSave(r)
  \/ \E d \in {OneDaySeconds - 1, OneDaySeconds} : Tick(d)

SpecGuard == Init /\ [][NextGuard]_vars

\* ---- the Credential Store: registration and profile operations
E_new == <<"c", "@", "x", ".", "c">>

RegisterBodies ==
  { [name |-> <<"U", "c">>, email |-> <<" ", "C", "@", "X", ".", "c">>,
     password |-> PasswordOf(3)],
    [name |-> <<"U", "d">>, email |-> <<"A", "@", "x", ".", "c">>,
     password |-> PasswordOf(4)],
    [name |-> <<"U", "d">>, email |-> <<"d", "@", "x", ".", "c">>,
     password |-> <<"a", "b", "c">>] }

ProfileBodies ==
  { [name |-> <<"Z", "z">>],
    [email |-> E_new],
    [name |-> <<"Z", "z">>, email |-> <<"B", "@", "x", ".", "c", " ">>],
    [name |-> <<"x">>] }

InitUsers ==
  /\ InitCommon
  /\ nodeEnv = "production"
  /\ users = Registered(2)
  /\ nextUserId = 3
  /\ plain = [i \in Owners |-> PasswordOf(i)]
  /\ tasks = <<>>
  /\ nextTaskId = 1
  /\ creator = <<>>

StartGetProfile(r) ==
  \E c \in OwnerCreds : Start(r, "getProfile", c, BadId, NoFields, NoFields)

StartUpdateProfile(r) ==
  \E c \in OwnerCreds, b \in ProfileBodies :
    Start(r, "updateProfile", c, BadId, b, NoFields)

NextUsers ==
  \E r \in Slots :
    \/ \E b \in RegisterBodies : StartRegister(r, b)
    \/ StartGetProfile(r)
    \/ StartUpdateProfile(r)
    \/ ProtectFindUser(r)
    \/ UserCreate(r)
    \/ GetProfileFind(r)
    \/ UpdateProfileFind(r)
    \/ UpdateProfileFindOne(r)
    \/ UpdateProfileSave(r)

SpecUsers == InitUsers /\ [][NextUsers]_vars

\* ---- the Error Translator on its own
\* AppErrors as handlers construct them: a message and a status code.
AppErrors ==
  { <<"Invalid input", 400>>, <<"Not authorized", 401>>, <<"Access forbidden", 403>>,
    <<"Resource not found", 404>>, <<"Email is already in use", 409>>,
    <<"Internal server error", 500>>, <<"Service unavailable", 503>> }

SomeFieldErrors ==
  { << [path |-> "email", message |-> "Email is required"] >>,
    << [path |-> "name", message |-> "Name is required"],
       [path |-> "password", message |-> "Password must be at least 6 characters"] >> }

\* The error objects that reach errorHandler: Mongoose validation, cast and
\* duplicate-key errors, JWT errors, express-validator results, AppErrors
\* and other errors carrying a statusCode (body-parser's), and errors
\* without one (storage faults, programming errors).
ErrorShapes ==
  {MongooseValidationError(es) : es \in SomeFieldErrors}
  \cup {CastError, DocumentNotFoundError}
  \cup {DuplicateKeyError("email", EmailOf(i)) : i \in 1..2}
  \cup {NamedError("JsonWebTokenError", "invalid signature"),
        NamedError("JsonWebTokenError", "jwt malformed"),
        NamedError("TokenExpiredError", "jwt expired"),
        NamedError("MongoNetworkError", "connection 3 to 10.0.0.5:27017 closed"),
        NamedError("TypeError", "Cannot read properties of null"),
        PlainError("Internal server error"), PlainError("")}
  \cup {[BaseError EXCEPT !.hasArray = TRUE,
                          !.array = << [path |-> "title", msg |-> "Title is required"] >>]}
  \cup {AppError(x[1], x[2]) : x \in AppErrors}
  \cup {notFound(url) : url \in {"/", "/api/unknown", "/api/tasks/1/comments"}}
  \cup {DuplicateKeyError("email", EmailOf(i)) : i \in 3..4}
  \cup {[NamedError("SyntaxError", "Unexpected token } in JSON at position 12")
           EXCEPT !.statusCode = 400]}
  \cup {[NamedError("PayloadTooLargeError", "request entity too large")
           EXCEPT !.statusCode = 413]}

InitErr ==
  /\ InitCommon
  /\ nodeEnv \in NodeEnvs
  /\ users = <<>>
  /\ nextUserId = 1
  /\ plain = <<>>
  /\ tasks = <<>>
  /\ nextTaskId = 1
  /\ creator = <<>>

\* An error is handed to next(err).
Raise(e) ==
  /\ err' = e
  /\ eresp' = NoResp
  /\ UNCHANGED <<users, tasks, nextUserId, nextTaskId, now, ticks, reqs, ops, plain,
                 creator, nodeEnv>>

\* errorHandler answers it.
Translate ==
  /\ eresp = NoResp
  /\ err # BaseError
  /\ eresp' = errorHandler(err, nodeEnv)
  /\ UNCHANGED <<users, tasks, nextUserId, nextTaskId, now, ticks, reqs, ops, plain,
                 creator, nodeEnv, err>>

NextErr == (\E e \in ErrorShapes : Raise(e)) \/ Translate

SpecErr == InitErr /\ [][NextErr]_vars

\* ---- store operations that fail
\* The error a store operation rejects with when the database cannot be
\* reached.
StorageError == NamedError("MongoNetworkError", "connection timed out")

\* protect, lines 27-65: the await of User.findById rejects; the catch
\* block answers its generic 401.
ProtectFindUserFails(r) ==
  /\ reqs[r].pc = "protect_findUser"
  /\ SetReq(r, Respond([reqs[r] EXCEPT !.guard = "Rejected"], 401,
                       JsonBody("Not authorized, token verification failed")))
  /\ UNCHANGED <<users, tasks, nextUserId, nextTaskId, now, ticks, ops, plain,
                 creator, nodeEnv, err, eresp>>

\* The awaits of store operations in the route handlers.
HandlerAwaits ==
  {"createTask_create", "getTasks_find", "getTaskById_find", "updateTask_find",
   "updateTask_save", "deleteTask_find", "deleteTask_deleteOne", "getProfile_find",
   "updateProfile_find", "updateProfile_findOne", "updateProfile_save"}

\* A handler's await of a store operation rejects: catch (error) { next(error) }.
HandlerStoreFails(r) ==
  /\ reqs[r].pc \in HandlerAwaits
  /\ SetReq(r, NextError(reqs[r], StorageError))
  /\ UNCHANGED <<users, tasks, nextUserId, nextTaskId, now, ticks, ops, plain,
                 creator, nodeEnv, err, eresp>>

StartOwnerRequest(r) ==
  \E op \in ProtectedOps :
    Start(r, op, [kind |-> "issued", id |-> 1, at |-> 0],
          RouteInput(op).id, RouteInput(op).body, RouteInput(op).query)

NextStorage ==
  \E r \in Slots :
    \/ StartOwnerRequest(r)
    \/ ProtectFindUser(r)
    \/ ProtectFindUserFails(r)
    \/ HandlerStoreFails(r)
    \/ CreateTaskCreate(r)
    \/ GetTasksFind(r)
    \/ GetTaskByIdFind(r)
    \/ UpdateTaskFind(r)
    \/ UpdateTaskSave(r)
    \/ DeleteTaskFind(r)
    \/ DeleteTaskDeleteOne(r)
    \/ GetProfileFind(r)
    \/ UpdateProfileFind(r)
    \/ UpdateProfileSave(r)

SpecStorage == Init /\ [][NextStorage]_vars

\* ---- task and profile requests that are refused
\* Requests of both users on task 1 and on an id that is not stored, profile
\* updates, and a request without a token cookie.
StartRefusable(r) ==
  \/ \E c \in OwnerCreds, id \in TaskIds :
       \/ Start(r, "getTaskById", c, id, NoFields, NoFields)
       \/ Start(r, "deleteTask", c, id, NoFields, NoFields)
  \/ \E c \in OwnerCreds, b \in UpdateBodies :
       Start(r, "updateTask", c, 1, b, NoFields)
  \/ \E c \in OwnerCreds, b \in ProfileBodies :
       Start(r, "updateProfile", c, BadId, b, NoFields)
  \/ Start(r, "getProfile", [kind |-> "none"], BadId, NoFields, NoFields)

NextRefuse ==
  \E r \in Slots :
    \/ StartRefusable(r)
    \/ ProtectFindUser(r)
    \/ GetTaskByIdFind(r)
    \/ UpdateTaskFind(r)
    \/ UpdateTaskSave(r)
    \/ DeleteTaskFind(r)
    \/ DeleteTaskDeleteOne(r)
    \/ UpdateProfileFind(r)
    \/ UpdateProfileFindOne(r)
    \/ UpdateProfileSave(r)

SpecRefuse == Init /\ [][NextRefuse]_vars

\* ---- updates of one task by its owner, overlapping and with time passing
\* Bodies of updateTask: no field, a status equal to the seeded one, a
\* status and a description, a title.
EditBodies ==
  { NoFields,
    [status |-> "todo"],
    [status |-> "completed", description |-> T_abc],
    [title |-> T_abc] }

EditedTask == 1

StartEdit(r) ==
  \E b \in EditBodies :
    Start(r, "updateTask", [kind |-> "issued", id |-> SeedTasks[EditedTask].user, at |-> 0],
          EditedTask, b, NoFields)

NextUpdate ==
  \/ \E r \in Slots :
       \/ StartEdit(r)
       \/ ProtectFindUser(r)
       \/ UpdateTaskFind(r)
       \/ UpdateTaskSave(r)
  \/ Tick(1)

SpecUpdate == Init /\ [][NextUpdate]_vars

\* ================================================================ properties
\* The ids of the tasks of a list response.
ListedIds(resp) ==
  {resp.body.data.tasks[i]._id : i \in 1..Len(resp.body.data.tasks)}

OwnedBy(store, u) == {t \in DOMAIN store : store[t].user = u}

NoFilter(req) == ~TruthyAtom(req.query, "status") /\ ~Truthy(req.query, "search")

\* The step in which request r gets its answer.
Answered(r) == reqs[r].pc \notin {"idle", "done"} /\ reqs'[r].pc = "done"

\* C1 (list isolation): whenever getTasks answers a caller A, the tasks it
\* returns are stored tasks owned by A, each as stored; without a filter
\* they are exactly the stored tasks owned by A; a task of another owner is
\* never among them.
C1_ListIsolation ==
  [][\A r \in Slots :
       (reqs[r].pc = "getTasks_find" /\ Answered(r)) =>
         LET A == reqs[r].cred.id
             out == reqs'[r].resp
         IN  /\ out.status = 200
             /\ ListedIds(out) \subseteq OwnedBy(tasks, A)
             /\ NoFilter(reqs[r]) => ListedIds(out) = OwnedBy(tasks, A)
             /\ out.body.count = Cardinality(ListedIds(out))
             /\ \A i \in 1..Len(out.body.data.tasks) :
                  /\ out.body.data.tasks[i].user = A
                  /\ out.body.data.tasks[i] = TaskToJSON(tasks[out.body.data.tasks[i]._id])
    ]_vars

\* An unfiltered list was answered with the caller's tasks while the store
\* also holds a task of another owner.
C1_Witness ==
  \E r \in Slots :
    /\ reqs[r].op = "getTasks" /\ reqs[r].pc = "done" /\ reqs[r].resp.status = 200
    /\ NoFilter(reqs[r])
    /\ reqs[r].resp.body.count >= 1
    /\ \E t \in DOMAIN tasks : tasks[t].user # reqs[r].cred.id
    /\ ListedIds(reqs[r].resp) = OwnedBy(tasks, reqs[r].cred.id)

\* C2 (read/write asymmetry), as stated: a request of an authenticated
\* caller on a stored task of another owner is answered 404 by getTaskById
\* and 403 by updateTask and by deleteTask, and leaves the task store as it was.
C2_ReadWriteAsymmetry ==
  [][\A r \in Slots :
       (/\ Answered(r)
        /\ reqs'[r].guard = "Authenticated"
        /\ reqs'[r].op \in {"getTaskById", "updateTask", "deleteTask"}
        /\ reqs'[r].id \in DOMAIN tasks
        /\ tasks[reqs'[r].id].user # reqs'[r].cred.id)
       => /\ reqs'[r].resp.status = (IF reqs'[r].op = "getTaskById" THEN 404 ELSE 403)
          /\ tasks' = tasks
    ]_vars

\* The store without task t.
WithoutTask(store, t) == [x \in (DOMAIN store) \ {t} |-> store[x]]

\* C3 (non-interference): the answer getTaskById gives a caller for the id
\* of a stored task of another owner is the answer it gives when no task has
\* that id.
C3_NonInterference ==
  \A r \in Slots :
    LET req == reqs[r]
    IN  (/\ req.pc = "getTaskById_find"
         /\ req.id \in DOMAIN tasks
         /\ tasks[req.id].user # req.cred.id)
        => getTaskByIdRespond(req, tasks).resp
             = getTaskByIdRespond(req, WithoutTask(tasks, req.id)).resp

\* getTaskById answered 404 for a task that is stored and owned by another
\* user.
C3_Witness ==
  \E r \in Slots :
    /\ reqs[r].op = "getTaskById" /\ reqs[r].pc = "done"
    /\ reqs[r].guard = "Authenticated"
    /\ reqs[r].id \in DOMAIN tasks
    /\ tasks[reqs[r].id].user # reqs[r].cred.id
    /\ reqs[r].resp.status = 404

\* A token minted at c.at is expired at clock value t.
Expired(c, t) == t >= c.at + 24 * 60 * 60

\* The step in which a new request takes slot r and protect runs up to its
\* database lookup.
Arrived(r) == FreeSlot(r) /\ ops' = ops + 1 /\ reqs'[r].op \in ProtectedOps

\* The step in which protect's user lookup of request r completes.
Resolved(r) == reqs[r].pc = "protect_findUser" /\ reqs'[r].pc # "protect_findUser"

\* q was answered by the guard: 401, no handler.
Rejected401(q) ==
  /\ q.pc = "done" /\ q.guard # "Authenticated" /\ ~q.ran
  /\ q.resp.status = 401
  /\ q.resp.body.success = FALSE

\* C4 (gate correctness): protect rejects with 401 every request without a
\* token, with a malformed token, with a token signed under another key,
\* with an expired token, and with a token whose user id is no stored user;
\* it accepts every request with an unexpired token issued for a stored
\* user, and the principal is that user.
C4_GateCorrectness ==
  [][\A r \in Slots :
       /\ Arrived(r) =>
            LET c == reqs'[r].cred
            IN  IF c.kind = "issued" /\ ~Expired(c, now)
                THEN reqs'[r].pc = "protect_findUser" /\ reqs'[r].sent = 0
                ELSE Rejected401(reqs'[r])
       /\ Resolved(r) =>
            LET c == reqs[r].cred
            IN  IF c.id \in DOMAIN users
                THEN /\ reqs'[r].guard = "Authenticated"
                     /\ reqs'[r].ran
                     /\ reqs'[r].user._id = c.id
                     /\ reqs'[r].user.email = users[c.id].email
                     /\ reqs'[r].resp.status # 401
                ELSE Rejected401(reqs'[r])
    ]_vars

\* One request was accepted for a stored user while another, carrying an
\* expired token of a stored user, was rejected with 401.
C4_Witness ==
  \E r, q \in Slots :
    /\ reqs[r].guard = "Authenticated" /\ reqs[r].cred.kind = "issued"
    /\ reqs[r].user._id = reqs[r].cred.id
    /\ reqs[q].guard = "Rejected" /\ reqs[q].cred.kind = "issued"
    /\ reqs[q].cred.id \in DOMAIN users
    /\ Expired(reqs[q].cred, now)
    /\ reqs[q].resp.status = 401

\* C5 (guard before handler): on a protected route the handler runs, and
\* takes its database steps, only for a request whose guard state is
\* Authenticated; a request the guard rejects gets exactly one response, a
\* 401, its handler never runs, the stores are not changed, and the request
\* takes no further step.
C5_GuardBeforeHandler ==
  [][\A r \in Slots :
       /\ (reqs'[r].ran \/ reqs'[r].pc \notin {"idle", "done", "protect_findUser"})
            => reqs'[r].guard = "Authenticated"
       /\ reqs'[r].sent <= 1
       /\ ((Arrived(r) /\ reqs'[r].pc # "protect_findUser")
           \/ (Resolved(r) /\ reqs'[r].guard # "Authenticated"))
            => /\ Rejected401(reqs'[r])
               /\ reqs'[r].sent = 1
               /\ users' = users /\ tasks' = tasks
       /\ (reqs[r].pc = "done" /\ reqs[r].op \in ProtectedOps
           /\ reqs[r].guard # "Authenticated")
            => (reqs'[r] = reqs[r] \/ ops' = ops + 1)
    ]_vars

\* One request was rejected by the guard with a single 401 while the
\* handler of another, authenticated, request ran to its answer.
C5_Witness ==
  \E r, q \in Slots :
    /\ reqs[r].guard = "Rejected" /\ reqs[r].pc = "done" /\ ~reqs[r].ran
    /\ reqs[r].sent = 1 /\ reqs[r].resp.status = 401
    /\ reqs[q].guard = "Authenticated" /\ reqs[q].ran /\ reqs[q].pc = "done"
    /\ reqs[q].resp.status \in {200, 201}

\* C6 (token round trip): verifying, with the server's secret, a token that
\* generateToken made for an id yields a payload with that id and with
\* exp - iat = 86400 seconds; under another key the verification fails.
C6_TokenRoundTrip ==
  /\ \A r \in Slots :
       (reqs[r].cred.kind = "issued" /\ reqs[r].guard \in {"Verifying", "Authenticated"})
         => /\ reqs[r].decoded.id = reqs[r].cred.id
            /\ reqs[r].decoded.iat = reqs[r].cred.at
            /\ reqs[r].decoded.exp - reqs[r].decoded.iat = 24 * 60 * 60
  /\ \A u \in {1, GhostUser} :
       LET v == JwtVerify(generateToken(u, now), JWT_SECRET, now)
       IN  /\ v.ok
           /\ v.payload.id = u
           /\ v.payload.iat = now
           /\ v.payload.exp - v.payload.iat = 24 * 60 * 60
           /\ ~JwtVerify(generateToken(u, now), ATTACKER_KEY, now).ok

\* A token minted earlier was verified later, within its lifetime, and the
\* request was admitted under the id it was minted for.
C6_Witness ==
  \E r \in Slots :
    /\ reqs[r].cred.kind = "issued" /\ reqs[r].guard = "Authenticated"
    /\ reqs[r].decoded.id = reqs[r].cred.id
    /\ reqs[r].user._id = reqs[r].cred.id
    /\ now > reqs[r].decoded.iat

\* C7 (password hashing): the password stored for a user is never the
\* plaintext the user gave; it is a bcrypt hash of that plaintext under some
\* salt, so matchPassword accepts the plaintext; this stays so when the user
\* is loaded and saved again with the password untouched.
C7_PasswordHashed ==
  \A u \in DOMAIN users :
    /\ users[u].password # plain[u]
    /\ IsBcryptHash(users[u].password)
    /\ \E salt \in Salts : users[u].password = BcryptHash(plain[u], salt)
    /\ MatchPassword(users[u], plain[u])

\* A user was created in this run, and a stored user was loaded, changed
\* and saved again by updateProfile; that user's plaintext still matches.
C7_Witness ==
  /\ \E u \in DOMAIN users : u \notin Owners
  /\ \E r \in Slots :
       /\ reqs[r].op = "updateProfile" /\ reqs[r].pc = "done"
       /\ reqs[r].resp.status = 200
       /\ reqs[r].modified # {}
       /\ users[reqs[r].cred.id].name = reqs[r].doc.name
       /\ MatchPassword(users[reqs[r].cred.id], plain[reqs[r].cred.id])

\* C8 (password never leaves): the principal the Auth Guard attaches, the
\* JSON form of every stored user, and the user object of every profile
\* response have no password field, while the stored user has one.
C8_NoPasswordOutward ==
  /\ \A u \in DOMAIN users :
       /\ Has(users[u], "password")
       /\ ~Has(UserToJSON(users[u]), "password")
       /\ {"_id", "name", "email"} \subseteq DOMAIN UserToJSON(users[u])
  /\ \A r \in Slots :
       /\ reqs[r].guard = "Authenticated" => ~Has(reqs[r].user, "password")
       /\ (reqs[r].pc = "done" /\ reqs[r].op \in {"getProfile", "updateProfile"}
           /\ reqs[r].resp.status = 200)
            => /\ ~Has(reqs[r].resp.body.data.user, "password")
               /\ reqs[r].resp.body.data.user._id = reqs[r].cred.id

\* getProfile answered one user and updateProfile another, both with a user
\* object, behind an Auth Guard that attached a principal.
C8_Witness ==
  \E r, q \in Slots :
    /\ reqs[r].op = "getProfile" /\ reqs[r].pc = "done" /\ reqs[r].resp.status = 200
    /\ reqs[q].op = "updateProfile" /\ reqs[q].pc = "done" /\ reqs[q].resp.status = 200
    /\ reqs[r].user._id # reqs[q].user._id
    /\ Has(reqs[r].resp.body.data.user, "email")

UniqueEmails(store) ==
  \A u1, u2 \in DOMAIN store :
    u1 # u2 => EmailSetter(store[u1].email) # EmailSetter(store[u2].email)

\* Another stored user than self holds this email, normalised.
HeldByOther(email, self) ==
  \E u \in DOMAIN users :
    u # self /\ EmailSetter(users[u].email) = EmailSetter(email)

\* The next step of request r is a lookup of, or a write with, an email
\* that another stored user holds: the insert of User.create, the findOne
\* of updateProfile, or a save whose modified paths include the email.
WouldDuplicate(r) ==
  \/ reqs[r].pc = "register_create" /\ HeldByOther(reqs[r].body.email, BadId)
  \/ reqs[r].pc = "updateProfile_findOne"
       /\ HeldByOther(reqs[r].body.email, reqs[r].cred.id)
  \/ reqs[r].pc = "updateProfile_save" /\ "email" \in reqs[r].modified
       /\ HeldByOther(reqs[r].doc.email, reqs[r].cred.id)

\* C9 (email uniqueness): no two stored users ever hold the same normalised
\* email, whatever the interleaving of creations and profile updates; a
\* request whose insert, lookup or save meets an email held by another user
\* is answered 400 by that step, which leaves the user store as it was.
C9_EmailUnique ==
  [][/\ UniqueEmails(users')
     /\ \A r \in Slots :
          (WouldDuplicate(r) /\ reqs'[r] # reqs[r])
            => /\ reqs'[r].pc = "done"
               /\ reqs'[r].resp.status = 400
               /\ reqs'[r].resp.body.success = FALSE
               /\ users' = users
    ]_vars

\* An updateProfile passed its email lookup, lost the race for the email
\* and was refused by the unique index at save: 400, and the email is held
\* by exactly one other user.
C9_Witness ==
  \E r \in Slots :
    /\ reqs[r].op = "updateProfile" /\ reqs[r].pc = "done"
    /\ "email" \in reqs[r].modified
    /\ reqs[r].resp.status = 400
    /\ \E u \in DOMAIN users : u # reqs[r].cred.id /\ users[u].email = reqs[r].doc.email
    /\ users[reqs[r].cred.id].email # reqs[r].doc.email

\* The status the error taxonomy assigns to an error object: 400 to
\* validation failures (schema validation, duplicate key, validator
\* results), 401 to authentication failures, 403 to authorization failures,
\* 404 to not-found failures (a malformed record id among them), 500 to
\* every other failure.
TaxonomyStatus(e) ==
  IF e.name = "ValidationError" \/ e.hasArray \/ e.code = 11000 THEN 400
  ELSE IF e.name \in {"JsonWebTokenError", "TokenExpiredError"} THEN 401
  ELSE IF e.name = "CastError" THEN 404
  ELSE IF e.statusCode \in {400, 401, 403, 404} THEN e.statusCode
  ELSE 500

\* C10 (error mapping), as stated: the response errorHandler sends for an
\* error has the status the taxonomy assigns to it, success = false and a
\* message.
C10_ErrorMapping ==
  eresp.status # 0 =>
    /\ eresp.status = TaxonomyStatus(err)
    /\ eresp.body.success = FALSE
    /\ Has(eresp.body, "message")
    /\ eresp.body.message # ""

\* C11 (status code closure), as stated: whatever error reaches
\* errorHandler, the status it sends is one of 400, 401, 403, 404, 500.
C11_StatusClosure ==
  eresp.status # 0 => eresp.status \in {400, 401, 403, 404, 500}

\* C12 (generic internal errors), as stated: for an error that is no
\* validation, authentication, authorization or not-found failure, the
\* response has status 500, no stack trace, and a message that is not the
\* error's own message text, in every configuration.
C12_GenericInternal ==
  (eresp.status # 0 /\ TaxonomyStatus(err) = 500) =>
    /\ eresp.status = 500
    /\ ~Has(eresp.body, "stack")
    /\ err.message # "" => eresp.body.message # err.message

\* A response body carries a non-empty errors list of {field, message}
\* entries.
FieldTagged(body) ==
  /\ Has(body, "errors")
  /\ Len(body.errors) >= 1
  /\ \A i \in 1..Len(body.errors) :
       Has(body.errors[i], "field") /\ Has(body.errors[i], "message")

\* C13 (field-tagged validation errors), as stated: every response with
\* status 400 carries an errors list with a {field, message} entry per
\* violated constraint.
C13_FieldTagged400 ==
  \A r \in Slots :
    (reqs[r].pc = "done" /\ reqs[r].resp.status = 400)
      => FieldTagged(reqs[r].resp.body)

\* Task id t was given to a task and the task has been removed.
Deleted(t) == t \in 1..(nextTaskId - 1) /\ t \notin DOMAIN tasks

\* The positions of a request before its handler has read the task.
BeforeLookup ==
  {"protect_findUser", "getTaskById_find", "updateTask_find", "deleteTask_find"}

\* C14 (delete is permanent), as stated: a removed task never comes back;
\* every getTaskById, updateTask and deleteTask request on it that has not
\* read the task before the removal is answered 404, a second delete among
\* them; and getTasks never returns it.
C14_DeletePermanent ==
  [][/\ \A t \in 1..(nextTaskId - 1) : Deleted(t) => t \notin DOMAIN tasks'
     /\ \A r \in Slots :
          /\ (/\ Answered(r)
              /\ reqs[r].op \in {"getTaskById", "updateTask", "deleteTask"}
              /\ reqs[r].pc \in BeforeLookup
              /\ Deleted(reqs[r].id))
               => reqs'[r].resp.status = 404
          /\ (Answered(r) /\ reqs[r].pc = "getTasks_find")
               => \A t \in ListedIds(reqs'[r].resp) : ~Deleted(t)
    ]_vars

\* C15 (owner immutability): a task that is created gets as owner the
\* principal of the createTask request that made it, whatever user the
\* body names; no step changes the owner of a stored task; so every stored
\* task is owned by the principal that created it.
C15_OwnerImmutable ==
  [][/\ \A t \in (DOMAIN tasks) \cap (DOMAIN tasks') : tasks'[t].user = tasks[t].user
     /\ \A t \in (DOMAIN tasks') \ (DOMAIN tasks) :
          \E r \in Slots :
            /\ reqs[r].pc = "createTask_create" /\ Answered(r)
            /\ reqs'[r].resp.status = 201
            /\ tasks'[t].user = reqs[r].cred.id
     /\ \A t \in DOMAIN tasks' : tasks'[t].user = creator'[t]
    ]_vars

\* A user created a task with a body naming another user as owner, then
\* updated it with such a body, and still owns it.
C15_Witness ==
  \E r \in Slots :
    /\ reqs[r].op = "updateTask" /\ reqs[r].pc = "done" /\ reqs[r].resp.status = 200
    /\ Has(reqs[r].body, "user") /\ reqs[r].body.user # reqs[r].cred.id
    /\ reqs[r].id \in DOMAIN tasks
    /\ reqs[r].id \notin DOMAIN SeedTasks
    /\ tasks[reqs[r].id].user = reqs[r].cred.id
    /\ creator[reqs[r].id] = reqs[r].cred.id

\* The status closure over a set of values and a default, on one step:
\* a createTask or updateTask request that passes the guard with a status
\* outside the set is answered 400, a getTasks request with a non-empty status
\* outside the set is answered 400, a task created from a body without a
\* status is stored with the default, and every task the step inserts or
\* writes has a status of the set.
StatusClosure(values, default, filterGiven(_)) ==
  /\ \A r \in Slots :
       Answered(r) =>
         /\ (/\ reqs[r].op \in {"createTask", "updateTask"}
             /\ Has(reqs[r].body, "status") /\ reqs[r].body.status \notin values
             /\ reqs'[r].resp.status # 401)
              => reqs'[r].resp.status = 400
         /\ (/\ reqs[r].op = "getTasks"
             /\ filterGiven(reqs[r].query) /\ reqs[r].query.status \notin values
             /\ reqs'[r].resp.status # 401)
              => reqs'[r].resp.status = 400
  /\ \A t \in (DOMAIN tasks') \ (DOMAIN tasks) :
       \A r \in Slots :
         (reqs[r].pc = "createTask_create" /\ Answered(r) /\ ~Has(reqs[r].body, "status"))
           => tasks'[t].status = default
  /\ \A t \in DOMAIN tasks' :
       (t \notin DOMAIN tasks \/ tasks'[t] # tasks[t]) => tasks'[t].status \in values

StatusGiven(q) == Has(q, "status")

StatusGivenNonEmpty(q) == Has(q, "status") /\ q.status # ""

ResultFor(r, q) ==
  ListedIds(getTasksRespond(getTasksEnter([reqs[r] EXCEPT !.query = q]), tasks).resp)

ListAnswered(r) ==
  /\ reqs[r].op = "getTasks" /\ reqs[r].pc = "getTasks_find" /\ Answered(r)
  /\ reqs'[r].resp.status = 200

\* C17 (filter composition): on the step that answers a list request, with
\* only a valid status the result is exactly the caller's stored tasks
\* having that status; with a valid status and a search the result is the
\* intersection of the status-only result and the search-only result; with
\* neither, the result is all of the caller's stored tasks.
C17_FilterComposition ==
  [][\A r \in Slots :
       ListAnswered(r) =>
         LET q == reqs[r].query
             got == ListedIds(reqs'[r].resp)
             mine == {t \in DOMAIN tasks : tasks[t].user = reqs[r].cred.id}
             st == Has(q, "status") /\ q.status \in {"todo", "in-progress", "completed"}
             se == Has(q, "search") /\ q.search # <<>>
         IN  /\ (st /\ ~Has(q, "search")) =>
                  got = {t \in mine : tasks[t].status = q.status}
             /\ (st /\ se) =>
                  got = ResultFor(r, [status |-> q.status]) \cap ResultFor(r, [search |-> q.search])
             /\ (~Has(q, "status") /\ ~Has(q, "search")) => got = mine
    ]_vars

\* A list with both a status and a search was answered with some task while
\* the caller holds another task that the filters leave out.
C17_Witness ==
  \E r \in Slots :
    /\ reqs[r].op = "getTasks" /\ reqs[r].pc = "done" /\ reqs[r].resp.status = 200
    /\ Has(reqs[r].query, "status") /\ Has(reqs[r].query, "search")
    /\ ListedIds(reqs[r].resp) # {}
    /\ \E t \in DOMAIN tasks :
         tasks[t].user = reqs[r].cred.id /\ t \notin ListedIds(reqs[r].resp)

\* k occurs in s as a run of consecutive characters, case being ignored.
OccursIn(k, s) ==
  \E i \in 1..(Len(s) - Len(k) + 1) :
    ToLower(SubSeq(s, i, i + Len(k) - 1)) = ToLower(k)

\* C18 (search semantics), as stated: on the step that answers a list
\* request carrying a search keyword, the result is exactly the caller's
\* stored tasks (of the given status, if one is given) in which the keyword
\* occurs, case being ignored, anywhere in the title or the description.
C18_SearchSubstring ==
  [][\A r \in Slots :
       (ListAnswered(r) /\ Has(reqs[r].query, "search") /\ reqs[r].query.search # <<>>) =>
         LET q == reqs[r].query
         IN  ListedIds(reqs'[r].resp) =
               {t \in DOMAIN tasks :
                  /\ tasks[t].user = reqs[r].cred.id
                  /\ Has(q, "status") => tasks[t].status = q.status
                  /\ \/ OccursIn(q.search, TextOf(tasks[t], "title"))
                     \/ OccursIn(q.search, TextOf(tasks[t], "description"))}
    ]_vars

\* C19 (invalid status filter), as stated: a list request that passes the
\* guard with a status parameter that is supplied but is not one of the
\* valid values, the empty string among them, is answered 400 and returns
\* no tasks.
C19_InvalidStatusRejected ==
  [][\A r \in Slots :
       (/\ Answered(r) /\ reqs[r].op = "getTasks"
        /\ Has(reqs[r].query, "status") /\ reqs[r].query.status \notin StatusValues
        /\ reqs'[r].resp.status # 401)
         => /\ reqs'[r].resp.status = 400
            /\ ~Has(reqs'[r].resp.body, "data")
    ]_vars

\* C20 (update: existence and ownership before validation), as stated: an
\* update request that passes the guard and is answered at its validation
\* or at its lookup is answered 404 when the task is not stored and 403
\* when it is stored with another owner, whatever fields it supplies.
C20_UpdateLookupFirst ==
  [][\A r \in Slots :
       (/\ Answered(r) /\ reqs[r].op = "updateTask"
        /\ reqs[r].pc \in {"protect_findUser", "updateTask_find"}
        /\ reqs'[r].resp.status # 401)
         => /\ reqs[r].id \notin DOMAIN tasks => reqs'[r].resp.status = 404
            /\ (reqs[r].id \in DOMAIN tasks /\ tasks[reqs[r].id].user # reqs[r].cred.id)
                 => reqs'[r].resp.status = 403
    ]_vars

\* The step in which the save of update request r succeeds.
UpdateSaved(r) ==
  /\ reqs[r].op = "updateTask" /\ reqs[r].pc = "updateTask_save" /\ Answered(r)
  /\ reqs'[r].resp.status = 200

SameField(d1, d2, f) == (Has(d1, f) <=> Has(d2, f)) /\ (Has(d1, f) => d1[f] = d2[f])

\* C21 (partial update), as stated: on the step in which an update
\* succeeds, each of title, description, status and dueDate that the request
\* supplies holds the supplied value afterwards, each one it does not supply
\* is as before, the owner and the creation timestamp are as before, and all
\* other tasks are unchanged.
C21_PartialUpdate ==
  [][\A r \in Slots :
       UpdateSaved(r) =>
         LET id == reqs[r].id
             b == reqs[r].body
         IN  /\ DOMAIN tasks' = DOMAIN tasks
             /\ \A t \in (DOMAIN tasks) \ {id} : tasks'[t] = tasks[t]
             /\ \A f \in {"title", "description", "status", "dueDate"} :
                  IF Has(b, f) THEN Has(tasks'[id], f) /\ tasks'[id][f] = b[f]
                  ELSE SameField(tasks'[id], tasks[id], f)
             /\ tasks'[id].user = tasks[id].user
             /\ tasks'[id].createdAt = tasks[id].createdAt
    ]_vars

C23_LastWriteWins ==
  [][\A r, q \in Slots :
       (/\ r # q
        /\ reqs[r].op = "updateTask" /\ reqs[r].pc = "updateTask_save" /\ Answered(r)
        /\ reqs[q].op = "updateTask" /\ reqs[q].pc = "done" /\ reqs[q].id = reqs[r].id
        /\ reqs[q].resp.status = 200)
         => /\ reqs'[r].resp.status = 200
            /\ \A f \in {"title", "description", "status", "dueDate"} :
                 /\ Has(reqs[r].body, f) => tasks'[reqs[r].id][f] = reqs[r].body[f]
                 /\ (Has(reqs[q].body, f) /\ ~Has(reqs[r].body, f))
                      => tasks'[reqs[r].id][f] = reqs[q].body[f]
    ]_vars

C24_StorageFailure500 ==
  [][\A r \in Slots :
       (ProtectFindUserFails(r) \/ HandlerStoreFails(r)) =>
         /\ reqs'[r].pc = "done"
         /\ reqs'[r].sent = 1
         /\ reqs'[r].resp.status = 500
         /\ tasks' = tasks /\ users' = users
    ]_vars

\* The guard's treatment of the token of a request that arrives, where
\* expiredAt(t, exp) tells whether a token of expiry exp counts as expired
\* at time t: a validly signed token of a stored user is answered 401
\* "token expired" when expired and is otherwise passed on to the user
\* lookup, which accepts it; a token signed with another key is answered 401
\* "invalid token".
ExpiryBoundary(expiredAt(_, _)) ==
  \A r \in Slots :
    /\ (Arrived(r) /\ reqs'[r].cred.kind = "issued" /\ reqs'[r].cred.id \in DOMAIN users) =>
         IF expiredAt(now, reqs'[r].token[2].exp)
         THEN /\ Rejected401(reqs'[r])
              /\ reqs'[r].resp.body.message = "Not authorized, token expired"
         ELSE reqs'[r].pc = "protect_findUser" /\ reqs'[r].sent = 0
    /\ (Arrived(r) /\ reqs'[r].cred.kind = "forged") =>
         /\ Rejected401(reqs'[r])
         /\ reqs'[r].resp.body.message = "Not authorized, invalid token"
    /\ (Resolved(r) /\ reqs[r].cred.kind = "issued" /\ reqs[r].cred.id \in DOMAIN users) =>
         reqs'[r].guard = "Authenticated" /\ reqs'[r].resp.status # 401

AtOrAfter(t, exp) == t >= exp

After(t, exp) == t > exp

\* C25 (expiry boundary), amended: a validly signed token of an existing
\* user is rejected as expired exactly when the current time is at or after
\* its expiry; at every now < expiresAt it is accepted, at every
\* now >= expiresAt (now = expiresAt included) it is rejected with 401
\* "token expired", which differs from the answer for an invalid token.
C25_ExpiredAtExpiry ==
  [][ExpiryBoundary(AtOrAfter)]_vars

\* A token of a stored user was rejected as expired at the second of its
\* expiry.
C25_Witness ==
  \E r \in Slots :
    /\ reqs[r].cred.kind = "issued" /\ reqs[r].cred.id \in DOMAIN users
    /\ reqs[r].pc = "done" /\ reqs[r].resp.status = 401
    /\ reqs[r].resp.body.message = "Not authorized, token expired"
    /\ now = reqs[r].token[2].exp

\* C25 (expiry boundary), as stated: the token is rejected as expired
\* exactly when the current time is strictly greater than its expiry, and
\* is accepted at now = expiresAt.
C25_ExpiredAfterExpiry ==
  [][ExpiryBoundary(After)]_vars

\* C26 (profile update frame): no step changes the id, the creation
\* timestamp or the stored password hash of a stored user, and the user's
\* plaintext password still verifies; the save of a profile update changes
\* at most the name and the email of the caller's record and no other
\* user's record.
C26_ProfileFrame ==
  [][/\ \A u \in DOMAIN users :
          /\ u \in DOMAIN users'
          /\ users'[u]._id = users[u]._id
          /\ users'[u].createdAt = users[u].createdAt
          /\ users'[u].password = users[u].password
          /\ MatchPassword(users'[u], plain'[u])
     /\ \A r \in Slots :
          (reqs[r].op = "updateProfile" /\ Answered(r)) =>
            /\ DOMAIN users' = DOMAIN users
            /\ \A u \in DOMAIN users :
                 IF u = reqs[r].cred.id
                 THEN Drop(users'[u], {"name", "email"}) = Drop(users[u], {"name", "email"})
                 ELSE users'[u] = users[u]
    ]_vars

\* After two profile updates a user has another name and another email,
\* and the id, the creation timestamp and the password hash of
\* registration.
C26_Witness ==
  \E u \in Owners :
    /\ users[u].name # Registered(2)[u].name
    /\ users[u].email # Registered(2)[u].email
    /\ users[u]._id = u
    /\ users[u].createdAt = Registered(2)[u].createdAt
    /\ users[u].password = Registered(2)[u].password
    /\ MatchPassword(users[u], PasswordOf(u))
    /\ \E r \in Slots :
         /\ reqs[r].op = "updateProfile" /\ reqs[r].pc = "done"
         /\ reqs[r].cred.id = u /\ reqs[r].resp.status = 200

\* C27 (list order): on the step that answers a list request, with or
\* without filters, a task never comes after one that was created earlier
\* than it: creation timestamps do not increase along the result.
C27_NewestFirst ==
  [][\A r \in Slots :
       ListAnswered(r) =>
         LET found == reqs'[r].resp.body.data.tasks
         IN  /\ \A i, j \in 1..Len(found) :
                  i < j => found[i].createdAt >= found[j].createdAt
             /\ \A i \in 1..Len(found) :
                  found[i].createdAt = tasks[found[i]._id].createdAt
    ]_vars

\* A list with a search filter was answered with two tasks, the one created
\* later first.
C27_Witness ==
  \E r \in Slots :
    /\ reqs[r].op = "getTasks" /\ reqs[r].pc = "done" /\ reqs[r].resp.status = 200
    /\ Has(reqs[r].query, "search")
    /\ Len(reqs[r].resp.body.data.tasks) >= 2
    /\ reqs[r].resp.body.data.tasks[1].createdAt > reqs[r].resp.body.data.tasks[2].createdAt

\* C28 (failure leaves the stores alone): the step that answers a request
\* with 400, 401, 403 or 404 changes neither the tasks nor the users, and
\* the only steps that change a store are the ones that answer a request
\* with success; so a request that is refused has changed nothing, a
\* profile update refused for a taken email included.
C28_FailureNoEffect ==
  [][/\ \A r \in Slots :
          (Answered(r) /\ reqs'[r].resp.status \in {400, 401, 403, 404})
            => tasks' = tasks /\ users' = users
     /\ (tasks' # tasks \/ users' # users) =>
          \E r \in Slots : Answered(r) /\ reqs'[r].resp.status \in {200, 201}
    ]_vars

\* A profile update carrying a new name and a taken email was answered 400
\* and the caller's name and email are the registered ones, while another
\* user's update of the caller's task was answered 403 with the task as
\* seeded.
C28_Witness ==
  \E r, q \in Slots :
    /\ reqs[r].op = "updateProfile" /\ reqs[r].pc = "done" /\ reqs[r].resp.status = 400
    /\ Has(reqs[r].body, "name") /\ Has(reqs[r].body, "email")
    /\ reqs[r].resp.body.message = "Email is already in use"
    /\ users[reqs[r].cred.id].name # reqs[r].body.name
    /\ users[reqs[r].cred.id] = Registered(2)[reqs[r].cred.id]
    /\ reqs[q].op = "updateTask" /\ reqs[q].pc = "done" /\ reqs[q].resp.status = 403
    /\ tasks = SeedTasks

\* C29 (concurrent deletes), as stated: when a delete of a task is answered
\* while another delete of the same task, overlapping with it, has already
\* been answered with success, the later answer is 404.
C29_OneDeleteSucceeds ==
  [][\A r, q \in Slots :
       (/\ r # q
        /\ reqs[r].op = "deleteTask" /\ Answered(r)
        /\ reqs[q].op = "deleteTask" /\ reqs[q].pc = "done"
        /\ reqs[q].id = reqs[r].id /\ reqs[q].resp.status = 200)
         => reqs'[r].resp.status = 404
    ]_vars

\* C30 (update against delete), as stated: a task that is not stored when
\* the save of an update completes stays absent, and that update is
\* answered with success or with 404, never with 500.
C30_UpdateAfterDelete ==
  [][\A r \in Slots :
       (/\ reqs[r].op = "updateTask" /\ reqs[r].pc = "updateTask_save" /\ Answered(r)
        /\ reqs[r].id \notin DOMAIN tasks)
         => /\ reqs[r].id \notin DOMAIN tasks'
            /\ reqs'[r].resp.status \in {200, 404}
    ]_vars

====
